---------------------------- MODULE Spec2Model ----------------------------
(***************************************************************************)
(* A model of amieclient/packet/base.py: the Packet base class, the        *)
(* accessors MetaPacket generates, the packet-type lookup, the dict        *)
(* serializer, the reply resolver and the required-data validator.         *)
(*                                                                         *)
(* Python values are records [kind, s, n]: None, str, int, datetime (named *)
(* by its ISO text), list, mapping and Packet reference.  A Python dict of *)
(* fields is a sequence of [k, v] entries in insertion order.              *)
(***************************************************************************)
EXTENDS Integers, Sequences, FiniteSets, TLC

VARIABLES
    required_data,       \* class attribute _required_data, one dict per class
    allowed_data,        \* class attribute _allowed_data, one dict per class
    default_additional,  \* the dict object that is __init__'s default additional_data
    packets,             \* the Packet instances constructed so far
    last                 \* the last call: its arguments and its outcome

vars == <<required_data, allowed_data, default_additional, packets, last>>

----------------------------------------------------------------------------
(* Python values *)

None == [kind |-> "none", s |-> "", n |-> 0]

Str(x) == [kind |-> "str", s |-> x, n |-> 0]

PyInt(i) == [kind |-> "int", s |-> "", n |-> i]

Datetime(iso) == [kind |-> "dt", s |-> iso, n |-> 0]

\* A list: a value with neither a packet_id attribute nor a get method
PyList == [kind |-> "list", s |-> "", n |-> 0]

\* A reference to the i-th Packet instance
PacketRef(i) == [kind |-> "packet", s |-> "", n |-> i]

\* A mapping {"header": {"packet_id": pid}}
HeaderDict(pid) == [kind |-> "dict", s |-> pid, n |-> 1]

\* A mapping with no header.packet_id
EmptyDict == [kind |-> "dict", s |-> "", n |-> 0]

\* bool(v)
Truthy(x) ==
    CASE x.kind = "none" -> FALSE
      [] x.kind = "str" -> x.s # ""
      [] x.kind = "int" -> x.n # 0
      [] OTHER -> TRUE

\* str(v) and "{}".format(v) of None, a str or an int
PyStr(x) ==
    CASE x.kind = "none" -> "None"
      [] x.kind = "str" -> x.s
      [] x.kind = "int" -> ToString(x.n)

\* datetime.isoformat()
isoformat(x) == x.s

\* The texts dateutil's parser reads as a date, with the datetime each gives
DateTexts ==
    [text \in {"2020-01-01", "2020-01-01T00:00:00"} |-> "2020-01-01T00:00:00"]

\* A parser that hands every value back as it is
dtparse_Unparsed(x) == [exc |-> "", value |-> x]

\* dateutil.parser.parse(value): a datetime, or the exception it raises
dtparse(x) ==
    IF x.kind # "str" THEN [exc |-> "TypeError", value |-> None]
    ELSE IF x.s \in DOMAIN DateTexts
         THEN [exc |-> "", value |-> Datetime(DateTexts[x.s])]
         ELSE [exc |-> "ValueError", value |-> None]

\* datetime.now(): the clock's reading
Now == "2026-10-29T04:00:00"

----------------------------------------------------------------------------
(* Python dicts, in insertion order *)

DictHas(d, key) == \E i \in 1..Len(d) : d[i].k = key

\* d.get(key)
DictGet(d, key) ==
    IF DictHas(d, key) THEN d[CHOOSE i \in 1..Len(d) : d[i].k = key].v ELSE None

\* d[key] = value
DictSet(d, key, value) ==
    IF DictHas(d, key)
    THEN [i \in 1..Len(d) |-> IF d[i].k = key THEN [k |-> key, v |-> value] ELSE d[i]]
    ELSE Append(d, [k |-> key, v |-> value])

DictKeys(d) == {d[i].k : i \in 1..Len(d)}

\* key in list
InList(key, list) == \E i \in 1..Len(list) : list[i] = key

----------------------------------------------------------------------------
(* The declared packet types: Packet.__subclasses__() in declaration order, *)
(* with the class parameters each declares.  Ntf expects a reply of a type  *)
(* that no class declares.                                                  *)

Subclasses == <<"Req", "Rep", "Inf", "Ntf">>

Classes == {Subclasses[i] : i \in 1..Len(Subclasses)}

Schema ==
    [Req |-> [packet_type |-> "request",
              expected_reply |-> <<"reply">>,
              data_keys_required |-> <<"Name", "StartDate">>,
              data_keys_allowed |-> <<"Note">>],
     Rep |-> [packet_type |-> "reply",
              expected_reply |-> <<"inform", "request">>,
              data_keys_required |-> <<"Name">>,
              data_keys_allowed |-> <<"EndDate">>],
     Inf |-> [packet_type |-> "inform",
              expected_reply |-> <<>>,
              data_keys_required |-> <<>>,
              data_keys_allowed |-> <<>>],
     Ntf |-> [packet_type |-> "notify",
              expected_reply |-> <<"data">>,
              data_keys_required |-> <<>>,
              data_keys_allowed |-> <<>>]]

\* 'Date' in key
IsDateKey(key) == \E i \in 1..(Len(key) - 3) : SubSeq(key, i, i + 3) = "Date"

----------------------------------------------------------------------------
(* The accessors MetaPacket generates; d is the dict the accessor reaches   *)
(* through self._required_data or self._allowed_data.                       *)

get_required(d, key) == DictGet(d, key)

set_required(d, key, value) == DictSet(d, key, value)

del_required(d, key) == DictSet(d, key, None)

get_allowed(d, key) == DictGet(d, key)

set_allowed(d, key, value) == DictSet(d, key, value)

\* MetaPacket.__new__: the two dicts it stores in the attributes of the class
MetaPacketNew == [c \in Classes |-> <<>>]

\* A name is bound to the allowed property when both lists declare it: the
\* loop over the allowed names assigns attrs[k] last.
IsAllowedKey(cls, key) == InList(key, Schema[cls].data_keys_allowed)

IsRequiredKey(cls, key) ==
    InList(key, Schema[cls].data_keys_required) /\ ~IsAllowedKey(cls, key)

\* getattr(self, key) for a declared name of the class of packet p
GetAttr(req, alw, p, key) ==
    IF IsAllowedKey(p.cls, key)
    THEN get_allowed(alw[p.cls], key)
    ELSE get_required(req[p.cls], key)

\* setattr(self, key, value) for a declared name; st holds the dicts self reaches
SetAttr(st, cls, key, value) ==
    IF IsAllowedKey(cls, key)
    THEN [st EXCEPT !.alw = set_allowed(@, key, value)]
    ELSE [st EXCEPT !.req = set_required(@, key, value)]

----------------------------------------------------------------------------
(* Packet.__init__ *)

\* The in_reply_to branches of __init__: whether the attribute in_reply_to_id
\* is assigned, and to what; a value with no get method raises.
NormalizeInReplyTo(in_reply_to, pkts) ==
    CASE in_reply_to.kind \in {"none", "str"} ->
            [exc |-> "", has |-> TRUE, id |-> in_reply_to]
      [] in_reply_to.kind = "int" ->
            [exc |-> "", has |-> TRUE, id |-> Str(PyStr(in_reply_to))]
      [] in_reply_to.kind = "packet" ->
            [exc |-> "", has |-> TRUE, id |-> Str(pkts[in_reply_to.n].packet_id)]
      [] in_reply_to.kind = "dict" ->
            IF in_reply_to.n = 1 /\ Truthy(Str(in_reply_to.s))
            THEN [exc |-> "", has |-> TRUE, id |-> Str(in_reply_to.s)]
            ELSE [exc |-> "", has |-> FALSE, id |-> None]
      [] OTHER -> [exc |-> "AttributeError", has |-> FALSE, id |-> None]

\* The loop over kwargs, from its i-th entry on; it stops at the first
\* exception and keeps what the earlier entries wrote.
RECURSIVE InitKwargs(_, _, _, _)
InitKwargs(cls, st, kwargs, i) ==
    IF i > Len(kwargs) THEN st
    ELSE LET key == kwargs[i].k
             value == kwargs[i].v
         IN  IF InList(key, Schema[cls].data_keys_required)
                  \/ InList(key, Schema[cls].data_keys_allowed)
             THEN IF IsDateKey(key)
                  THEN LET parsed == dtparse(value)
                       IN  IF parsed.exc # ""
                           THEN [st EXCEPT !.exc = parsed.exc]
                           ELSE InitKwargs(cls, SetAttr(st, cls, key, parsed.value),
                                           kwargs, i + 1)
                  ELSE InitKwargs(cls, SetAttr(st, cls, key, value), kwargs, i + 1)
             ELSE InitKwargs(cls, [st EXCEPT !.add = DictSet(@, key, value)],
                             kwargs, i + 1)

\* cls(packet_id, date, additional_data, in_reply_to, **kwargs) in the state
\* (req, alw, dflt, pkts).  additional_data is [given, seed]: not given, self
\* refers to the default dict object itself.  The result carries the class
\* dicts and the default dict as the call leaves them, raising or not.
PacketInit(req, alw, dflt, pkts, cls, packet_id, date, additional_data, in_reply_to, kwargs) ==
    LET irt == NormalizeInReplyTo(in_reply_to, pkts)
        st0 == [exc |-> "", req |-> req[cls], alw |-> alw[cls],
                add |-> IF additional_data.given THEN additional_data.seed ELSE dflt]
        st == IF irt.exc # "" THEN [st0 EXCEPT !.exc = irt.exc]
              ELSE InitKwargs(cls, st0, kwargs, 1)
    IN  [exc |-> st.exc,
         req |-> [req EXCEPT ![cls] = st.req],
         alw |-> [alw EXCEPT ![cls] = st.alw],
         dflt |-> IF additional_data.given THEN dflt ELSE st.add,
         pkt |-> [cls |-> cls,
                  packet_id |-> PyStr(packet_id),
                  date |-> IF ~Truthy(date) THEN Datetime(Now) ELSE None,
                  additional_data |-> IF additional_data.given THEN st.add ELSE <<>>,
                  own_additional |-> additional_data.given,
                  has_date |-> ~Truthy(date),
                  has_in_reply_to_id |-> irt.has,
                  in_reply_to_id |-> irt.id]]

\* self.additional_data of packet p: its own dict, or the default dict object
AdditionalData(dflt, p) ==
    IF p.own_additional THEN p.additional_data ELSE dflt

----------------------------------------------------------------------------
(* Packet._find_packet_type *)

\* The class found for a type name (the first subclass declaring it) or for
\* a Packet instance of class cls; pkt_cls stays None, and the lookup raises,
\* when nothing matches.
FindPacketType(packet_or_packet_type, cls) ==
    LET hits == IF packet_or_packet_type.kind = "str"
                THEN {i \in 1..Len(Subclasses) :
                        Schema[Subclasses[i]].packet_type = packet_or_packet_type.s}
                ELSE {i \in 1..Len(Subclasses) :
                        packet_or_packet_type.kind = "packet" /\ Subclasses[i] = cls}
    IN  IF hits = {}
        THEN [exc |-> "PacketInvalidType", cls |-> ""]
        ELSE [exc |-> "",
              cls |-> Subclasses[CHOOSE i \in hits : \A j \in hits : i <= j]]

----------------------------------------------------------------------------
(* Packet.as_dict *)

\* The loop of as_dict over one dict d, writing into data_body
RECURSIVE BodyOf(_, _, _)
BodyOf(data_body, d, i) ==
    IF i > Len(d) THEN data_body
    ELSE BodyOf(IF d[i].v.kind = "dt"
                THEN DictSet(data_body, d[i].k, Str(isoformat(d[i].v)))
                ELSE IF d[i].v # None
                     THEN DictSet(data_body, d[i].k, d[i].v)
                     ELSE data_body,
                d, i + 1)

\* What as_dict returns where it returns nothing
NoEnvelope ==
    [has_type |-> FALSE, type |-> "", DATA_TYPE |-> "", body |-> <<>>,
     header |-> [in_reply_to |-> None, packet_id |-> "", date |-> "", type |-> "",
                 expected_reply_list |-> <<>>, has_in_reply_to |-> FALSE]]

\* p.as_dict().  has_type and has_in_reply_to say whether the dict has the
\* top-level key 'type' and the header key 'in_reply_to'.  Reading an
\* attribute __init__ never assigned raises AttributeError.
as_dict(req, alw, dflt, p) ==
    LET data_body ==
            BodyOf(BodyOf(BodyOf(<<>>, req[p.cls], 1), alw[p.cls], 1),
                   AdditionalData(dflt, p), 1)
    IN  IF ~p.has_date \/ ~p.has_in_reply_to_id
        THEN [exc |-> "AttributeError", data |-> NoEnvelope]
        ELSE [exc |-> "",
              data |-> [has_type |-> FALSE, type |-> "",
                        DATA_TYPE |-> "packet",
                        body |-> data_body,
                        header |-> [in_reply_to |-> IF Truthy(p.in_reply_to_id)
                                                    THEN p.in_reply_to_id
                                                    ELSE None,
                                    packet_id |-> p.packet_id,
                                    date |-> isoformat(p.date),
                                    type |-> Schema[p.cls].packet_type,
                                    expected_reply_list |-> Schema[p.cls].expected_reply,
                                    has_in_reply_to |-> Truthy(p.in_reply_to_id)]]]

----------------------------------------------------------------------------
(* Packet.from_dict *)

\* What a call that constructs nothing leaves behind
NoInit(req, alw, dflt, exc) ==
    [exc |-> exc, req |-> req, alw |-> alw, dflt |-> dflt,
     pkt |-> [cls |-> "", packet_id |-> "", date |-> None,
              additional_data |-> <<>>, own_additional |-> FALSE, has_date |-> FALSE,
              has_in_reply_to_id |-> FALSE, in_reply_to_id |-> None]]

\* Packet.from_dict(data): data['type'] raises KeyError on a dict without the
\* top-level key.  header.get('in_reply_to') is None when the key is absent.
from_dict(req, alw, dflt, pkts, data) ==
    IF ~data.has_type THEN NoInit(req, alw, dflt, "KeyError")
    ELSE LET found == FindPacketType(Str(data.type), "")
         IN  IF found.exc # "" THEN NoInit(req, alw, dflt, found.exc)
             ELSE PacketInit(req, alw, dflt, pkts, found.cls,
                             Str(data.header.packet_id), None,
                             [given |-> FALSE, seed |-> <<>>],
                             IF data.header.has_in_reply_to
                             THEN data.header.in_reply_to ELSE None,
                             data.body)

----------------------------------------------------------------------------
(* Packet.reply_packet *)

\* reply_packet's chain with the forced branch lost: force is ignored
ReplyBranch_Unforced(p, packet_type, force) ==
    LET expected == Schema[p.cls].expected_reply
    IN  IF Len(expected) = 0 THEN 2
        ELSE IF Len(expected) > 1 /\ packet_type = None THEN 3
        ELSE IF packet_type # None
                /\ ~(packet_type.kind = "str" /\ InList(packet_type.s, expected))
             THEN 4
        ELSE 5

\* The branch of reply_packet's if/elif chain taken, 1 to 5
ReplyBranch(p, packet_type, force) ==
    LET expected == Schema[p.cls].expected_reply
    IN  IF Truthy(packet_type) /\ force THEN 1
        ELSE IF Len(expected) = 0 THEN 2
        ELSE IF Len(expected) > 1 /\ packet_type = None THEN 3
        ELSE IF packet_type # None
                /\ ~(packet_type.kind = "str" /\ InList(packet_type.s, expected))
             THEN 4
        ELSE 5

\* p.reply_packet(packet_id, packet_type, force)
reply_packet(req, alw, dflt, pkts, p, packet_id, packet_type, force) ==
    LET branch == ReplyBranch(p, packet_type, force)
        expected == Schema[p.cls].expected_reply
        wanted == IF branch = 5 /\ packet_type = None
                  THEN Str(expected[1]) ELSE packet_type
        found == FindPacketType(wanted, "")
    IN  IF branch \in {2, 3, 4}
        THEN NoInit(req, alw, dflt, "PacketInvalidType")
        ELSE IF found.exc # "" THEN NoInit(req, alw, dflt, found.exc)
        ELSE PacketInit(req, alw, dflt, pkts, found.cls, packet_id, None,
                        [given |-> FALSE, seed |-> <<>>], Str(p.packet_id), <<>>)

----------------------------------------------------------------------------
(* Packet.validate_data *)

\* p.validate_data(): True, or the exception and the key its message names
validate_data(req, p) ==
    LET d == req[p.cls]
        nulls == {i \in 1..Len(d) : d[i].v = None}
    IN  IF ~p.has_in_reply_to_id THEN [exc |-> "AttributeError", key |-> ""]
        ELSE IF Truthy(p.in_reply_to_id) THEN [exc |-> "", key |-> ""]
        ELSE IF nulls = {} THEN [exc |-> "", key |-> ""]
        ELSE [exc |-> "PacketInvalidData",
              key |-> d[CHOOSE i \in nulls : \A j \in nulls : i <= j].k]

----------------------------------------------------------------------------
(* The calls a program makes, one action per call *)

\* The most Packet instances a run constructs
MaxPackets == 2

\* The record of a call, before its fields are filled in
NoCall ==
    [exc |-> "", value |-> None, key |-> "", packet_type |-> None, cls |-> "",
     p |-> 0, in_reply_to |-> None, packet_id |-> None, kwargs |-> <<>>,
     date |-> None, given |-> FALSE, data |-> NoEnvelope, force |-> FALSE,
     op |-> "", q |-> 0,
     before |-> [req |-> <<>>, alw |-> <<>>, add |-> <<>>]]

\* What a constructing call (r is its PacketInit result) does to the state
Constructed(r) ==
    /\ required_data' = r.req
    /\ allowed_data' = r.alw
    /\ default_additional' = r.dflt
    /\ packets' = IF r.exc = "" THEN Append(packets, r.pkt) ELSE packets

\* The index of the instance a constructing call returned, 0 if it raised
NewIndex(r) == IF r.exc = "" THEN Len(packets) + 1 ELSE 0

\* cls(packet_id=..., date=..., additional_data=..., in_reply_to=..., **kwargs)
Construct(cls, packet_id, date, additional_data, in_reply_to, kwargs) ==
    /\ Len(packets) < MaxPackets
    /\ in_reply_to.kind = "packet" => in_reply_to.n \in DOMAIN packets
    /\ LET r == PacketInit(required_data, allowed_data, default_additional,
                           packets, cls, packet_id, date, additional_data,
                           in_reply_to, kwargs)
       IN  /\ Constructed(r)
           /\ last' = [NoCall EXCEPT !.op = "init", !.exc = r.exc,
                                     !.q = NewIndex(r), !.cls = cls,
                                     !.packet_id = packet_id, !.date = date,
                                     !.given = additional_data.given,
                                     !.in_reply_to = in_reply_to,
                                     !.kwargs = kwargs]

\* packets[i].key = value, for a name the class declares
SetField(i, key, value) ==
    /\ i \in DOMAIN packets
    /\ IsAllowedKey(packets[i].cls, key) \/ IsRequiredKey(packets[i].cls, key)
    /\ LET cls == packets[i].cls
           st == SetAttr([req |-> required_data[cls], alw |-> allowed_data[cls]],
                         cls, key, value)
       IN  /\ required_data' = [required_data EXCEPT ![cls] = st.req]
           /\ allowed_data' = [allowed_data EXCEPT ![cls] = st.alw]
    /\ last' = [NoCall EXCEPT !.op = "set", !.p = i, !.key = key, !.value = value]
    /\ UNCHANGED <<default_additional, packets>>

\* del packets[i].key, for a required name of the class
DelField(i, key) ==
    /\ i \in DOMAIN packets
    /\ IsRequiredKey(packets[i].cls, key)
    /\ required_data' = [required_data EXCEPT
                            ![packets[i].cls] = del_required(@, key)]
    /\ last' = [NoCall EXCEPT !.op = "del", !.p = i, !.key = key]
    /\ UNCHANGED <<allowed_data, default_additional, packets>>

\* packets[i].validate_data()
ValidateData(i) ==
    /\ i \in DOMAIN packets
    /\ LET r == validate_data(required_data, packets[i])
       IN  last' = [NoCall EXCEPT !.op = "validate", !.p = i, !.exc = r.exc,
                                  !.key = r.key]
    /\ UNCHANGED <<required_data, allowed_data, default_additional, packets>>

\* packets[i].as_dict()
AsDict(i) ==
    /\ i \in DOMAIN packets
    /\ LET r == as_dict(required_data, allowed_data, default_additional, packets[i])
       IN  last' = [NoCall EXCEPT !.op = "as_dict", !.p = i, !.exc = r.exc,
                                  !.data = r.data]
    /\ UNCHANGED <<required_data, allowed_data, default_additional, packets>>

\* Packet.from_dict(data)
FromDict(data) ==
    /\ Len(packets) < MaxPackets
    /\ LET r == from_dict(required_data, allowed_data, default_additional,
                          packets, data)
       IN  /\ Constructed(r)
           /\ last' = [NoCall EXCEPT !.op = "from_dict", !.exc = r.exc,
                                     !.q = NewIndex(r), !.data = data]

\* Packet.from_dict(packets[i].as_dict()), where as_dict returns; the call
\* record keeps the three field dicts of packets[i] as they were before
RoundTrip(i) ==
    /\ i \in DOMAIN packets
    /\ Len(packets) < MaxPackets
    /\ LET d == as_dict(required_data, allowed_data, default_additional, packets[i])
           r == from_dict(required_data, allowed_data, default_additional,
                          packets, d.data)
       IN  /\ d.exc = ""
           /\ Constructed(r)
           /\ last' = [NoCall EXCEPT
                          !.op = "round_trip", !.p = i, !.exc = r.exc,
                          !.q = NewIndex(r), !.data = d.data,
                          !.before = [req |-> required_data[packets[i].cls],
                                      alw |-> allowed_data[packets[i].cls],
                                      add |-> AdditionalData(default_additional,
                                                             packets[i])]]

\* packets[i].reply_packet(packet_id, packet_type, force)
ReplyPacket(i, packet_id, packet_type, force) ==
    /\ i \in DOMAIN packets
    /\ Len(packets) < MaxPackets
    /\ LET r == reply_packet(required_data, allowed_data, default_additional,
                             packets, packets[i], packet_id, packet_type, force)
       IN  /\ Constructed(r)
           /\ last' = [NoCall EXCEPT !.op = "reply_packet", !.p = i, !.exc = r.exc,
                                     !.q = NewIndex(r), !.packet_id = packet_id,
                                     !.packet_type = packet_type, !.force = force]

\* The state once the classes are declared: MetaPacket.__new__ ran for each
\* class, __init__'s default dict is empty, no Packet is constructed yet.
Init ==
    /\ required_data = MetaPacketNew
    /\ allowed_data = MetaPacketNew
    /\ default_additional = <<>>
    /\ packets = <<>>
    /\ last = NoCall

----------------------------------------------------------------------------
(* Reply resolution: packets of every class, replies asked for in every way *)

NoSeed == [given |-> FALSE, seed |-> <<>>]

\* The packet ids a caller passes: none, a number, a text
PacketIds == {None, PyInt(7), Str("p1")}

\* The reply types a caller asks for: none, the empty text, every declared
\* type, and a type no class declares
ReplyTypes ==
    {None, Str(""), Str("bogus")}
        \cup {Str(Schema[c].packet_type) : c \in Classes}

ConstructPlain == \E cls \in Classes, packet_id \in PacketIds :
    Construct(cls, packet_id, None, NoSeed, None, <<>>)

ReplyAny == \E i \in 1..MaxPackets, packet_id \in PacketIds,
               packet_type \in ReplyTypes, force \in BOOLEAN :
    ReplyPacket(i, packet_id, packet_type, force)

NextReply == ConstructPlain \/ ReplyAny

SpecReply == Init /\ [][NextReply]_vars

\* The class registered under a type name, "" if none is
RegisteredClass(name) ==
    IF \E c \in Classes : Schema[c].packet_type = name
    THEN CHOOSE c \in Classes : Schema[c].packet_type = name
    ELSE ""

\* The reply type the ordered decision of the claim resolves, "" where it
\* fails with InvalidType
C5_Resolved(src_cls, packet_type, force) ==
    LET permitted == Schema[src_cls].expected_reply
        requested == packet_type # None
    IN  IF requested /\ force THEN RegisteredClass(packet_type.s)
        ELSE IF Len(permitted) = 0 THEN ""
        ELSE IF Len(permitted) > 1 /\ ~requested THEN ""
        ELSE IF requested /\ \A k \in 1..Len(permitted) : permitted[k] # packet_type.s
             THEN ""
        ELSE RegisteredClass(IF requested THEN packet_type.s ELSE permitted[1])

\* C5: reply_packet(packet_id, packet_type, force) follows the ordered decision
\* (forced request, no permitted reply, ambiguous, not permitted, resolved);
\* it raises PacketInvalidType and constructs nothing where the decision fails,
\* and otherwise returns a new instance of the resolved class whose
\* in_reply_to_id is the source packet's packet_id.
C5_ReplyDecision ==
    last.op = "reply_packet" =>
        LET src == packets[last.p]
            resolved == C5_Resolved(src.cls, last.packet_type, last.force)
        IN  IF resolved = ""
            THEN last.exc = "PacketInvalidType" /\ last.q = 0
            ELSE /\ last.exc = ""
                 /\ last.q = Len(packets)
                 /\ last.q # last.p
                 /\ packets[last.q].cls = resolved
                 /\ packets[last.q].has_in_reply_to_id
                 /\ packets[last.q].in_reply_to_id = Str(src.packet_id)

\* A forced reply of a type the source does not permit was constructed
C5_Witness ==
    /\ last.op = "reply_packet"
    /\ last.exc = ""
    /\ last.force
    /\ ~InList(last.packet_type.s, Schema[packets[last.p].cls].expected_reply)
    /\ packets[last.q].in_reply_to_id = Str(packets[last.p].packet_id)

----------------------------------------------------------------------------
(* Field stores: packets built with named field values, fields set and     *)
(* reset through the generated accessors, packets validated                 *)

\* The most named field values one call passes
MaxKwargs == 1

\* The **kwargs a call may pass: at most MaxKwargs entries, no key twice
KwargsOver(keys, values) ==
    {kw \in UNION {[1..n -> [k : keys, v : values]] : n \in 0..MaxKwargs} :
        \A i, j \in DOMAIN kw : i # j => kw[i].k # kw[j].k}

\* A dict as a transport hands it to from_dict; has_type says whether it has
\* the top-level key 'type' next to DATA_TYPE, header and body
Envelope(has_type, type, packet_id, in_reply_to, body) ==
    [has_type |-> has_type, type |-> IF has_type THEN type ELSE "",
     DATA_TYPE |-> "packet", body |-> body,
     header |-> [in_reply_to |-> in_reply_to, packet_id |-> packet_id,
                 date |-> Now, type |-> type, expected_reply_list |-> <<>>,
                 has_in_reply_to |-> in_reply_to # None]]

FieldClasses == {"Req", "Rep"}

FieldKeys == {"Name", "StartDate", "Note"}

DateKeys == {"StartDate", "EndDate"}

\* Field values a caller writes: a plain text and a date text
FieldValues == {Str("x"), Str("2020-01-01")}

ConstructFields ==
    \E cls \in FieldClasses, in_reply_to \in {None, Str("p1")},
       kwargs \in KwargsOver(FieldKeys, FieldValues) :
        Construct(cls, None, None, NoSeed, in_reply_to, kwargs)

FromDictFields ==
    \E kwargs \in KwargsOver(FieldKeys, FieldValues) :
        FromDict(Envelope(TRUE, "request", "p1", None, kwargs))

SetAny == \E i \in 1..MaxPackets, key \in FieldKeys, value \in FieldValues :
    SetField(i, key, value)

DelAny == \E i \in 1..MaxPackets, key \in FieldKeys : DelField(i, key)

ValidateAny == \E i \in 1..MaxPackets : ValidateData(i)

ReplyPlain == \E i \in 1..MaxPackets : ReplyPacket(i, None, None, FALSE)

Next ==
    \/ ConstructFields
    \/ FromDictFields
    \/ SetAny
    \/ DelAny
    \/ ValidateAny
    \/ ReplyPlain

Spec == Init /\ [][Next]_vars

\* The value read for a declared name of the i-th packet
Read(i, key) == GetAttr(required_data, allowed_data, packets[i], key)

\* The names the class of the i-th packet declares
DeclaredKeys(i) ==
    {key \in FieldKeys \cup DateKeys : IsRequiredKey(packets[i].cls, key)
                            \/ IsAllowedKey(packets[i].cls, key)}

\* C2: validate_data succeeds exactly when in_reply_to_id is non-null or every
\* schema-required field reads non-null (a field never assigned reads null);
\* when it fails it raises PacketInvalidData naming the first null required
\* field in schema order.
C2_ValidateIffComplete ==
    last.op = "validate" =>
        LET p == packets[last.p]
            names == Schema[p.cls].data_keys_required
            nulls == {k \in 1..Len(names) : Read(last.p, names[k]) = None}
            linked == p.has_in_reply_to_id /\ p.in_reply_to_id # None
        IN  /\ (last.exc = "") <=> (linked \/ nulls = {})
            /\ last.exc # "" =>
                  /\ last.exc = "PacketInvalidData"
                  /\ last.key = names[CHOOSE k \in nulls : \A j \in nulls : k <= j]

\* C3: a write to a required or allowed field of one packet never changes the
\* value read for any field of a different packet.
C3_WritesStayInPacket ==
    [][\A a, b \in DOMAIN packets :
          (last'.op = "set" /\ last'.p = a /\ b # a) =>
              \A key \in DeclaredKeys(b) :
                  GetAttr(required_data', allowed_data', packets[b], key)
                      = Read(b, key)]_vars

\* C7: the key set of every packet's required-field store is exactly the
\* schema's list of required names, after construction and after every
\* accessor set and reset.
C7_RequiredKeysExact ==
    \A i \in DOMAIN packets :
        DictKeys(required_data[packets[i].cls])
            = {Schema[packets[i].cls].data_keys_required[k] :
                  k \in 1..Len(Schema[packets[i].cls].data_keys_required)}

----------------------------------------------------------------------------
(* Date-like fields: packets built and read back with date texts, date     *)
(* fields set through the accessors                                         *)

ConstructDates ==
    \E cls \in FieldClasses, kwargs \in KwargsOver(DateKeys, FieldValues) :
        Construct(cls, None, None, NoSeed, None, kwargs)

FromDictDates ==
    \E kwargs \in KwargsOver(DateKeys, FieldValues) :
        FromDict(Envelope(TRUE, "request", "p1", None, kwargs))

SetDates == \E i \in 1..MaxPackets, key \in DateKeys, value \in FieldValues :
    SetField(i, key, value)

NextDates == ConstructDates \/ FromDictDates \/ SetDates

SpecDates == Init /\ [][NextDates]_vars

\* C8 as stated: every declared field whose name contains 'Date' and whose
\* value is non-null holds a parsed timestamp, never raw text.
C8_DatesAlwaysParsed ==
    \A i \in DOMAIN packets : \A key \in DeclaredKeys(i) :
        (IsDateKey(key) /\ Read(i, key) # None) => Read(i, key).kind = "dt"

\* The named field values of the last constructing call
CallKwargs == IF last.op = "from_dict" THEN last.data.body ELSE last.kwargs

\* C8 amended: right after a packet is constructed (directly or by from_dict)
\* every declared field named in that call whose name contains 'Date' holds
\* the timestamp parsed from the text given; right after an accessor set the
\* field holds the value given, unparsed.
C8_DatesParsedAtConstruction ==
    /\ (last.op \in {"init", "from_dict"} /\ last.exc = "") =>
          \A k \in DOMAIN CallKwargs :
              (CallKwargs[k].k \in DeclaredKeys(last.q) /\ IsDateKey(CallKwargs[k].k)) =>
                  /\ CallKwargs[k].v.s \in DOMAIN DateTexts
                  /\ Read(last.q, CallKwargs[k].k)
                        = Datetime(DateTexts[CallKwargs[k].v.s])
    /\ last.op = "set" => Read(last.p, last.key) = last.value

\* A packet was constructed with a date text for its StartDate
C8_Witness ==
    /\ last.op = "init"
    /\ last.exc = ""
    /\ \E k \in DOMAIN last.kwargs :
          last.kwargs[k] = [k |-> "StartDate", v |-> Str("2020-01-01")]
    /\ Read(last.q, "StartDate") = Datetime("2020-01-01T00:00:00")

----------------------------------------------------------------------------
(* The wire: packets serialized, read back, and read from received dicts    *)

WireClasses == {"Req", "Inf"}

WireKeys == {"Name", "StartDate", "Extra"}

\* A timestamp a caller passes as date
SomeDate == Datetime("2020-01-01T00:00:00")

ConstructWire ==
    \E cls \in WireClasses, date \in {None, SomeDate},
       in_reply_to \in {None, Str("abc")},
       kwargs \in KwargsOver(WireKeys, FieldValues) :
        Construct(cls, Str("p1"), date, NoSeed, in_reply_to, kwargs)

AsDictAny == \E i \in 1..MaxPackets : AsDict(i)

RoundTripAny == \E i \in 1..MaxPackets : RoundTrip(i)

FromDictWire ==
    \E has_type \in BOOLEAN, type \in {"request", "bogus"},
       in_reply_to \in {None, Str("abc")},
       body \in KwargsOver(WireKeys, FieldValues) :
        FromDict(Envelope(has_type, type, "p2", in_reply_to, body))

NextWire == ConstructWire \/ AsDictAny \/ RoundTripAny \/ FromDictWire

SpecWire == Init /\ [][NextWire]_vars

\* Every entry of dict a that is not None is an entry of dict b
NonNullKept(a, b) ==
    \A k \in 1..Len(a) : a[k].v # None => (DictHas(b, a[k].k) /\ DictGet(b, a[k].k) = a[k].v)

\* C1: from_dict(as_dict(p)) succeeds and returns an instance of p's class
\* whose required, allowed and extension values equal p's for every field
\* that was non-null in p.
C1_RoundTrip ==
    last.op = "round_trip" =>
        /\ last.exc = ""
        /\ last.q = Len(packets)
        /\ packets[last.q].cls = packets[last.p].cls
        /\ NonNullKept(last.before.req, required_data[packets[last.q].cls])
        /\ NonNullKept(last.before.alw, allowed_data[packets[last.q].cls])
        /\ NonNullKept(last.before.add,
                       AdditionalData(default_additional, packets[last.q]))

\* C9: from_dict applied to a received dict whose header type is not a
\* registered packet type raises PacketInvalidType and constructs no packet.
C9_UnregisteredType ==
    (last.op = "from_dict" /\ RegisteredClass(last.data.header.type) = "") =>
        (last.exc = "PacketInvalidType" /\ last.q = 0)

\* C10: as_dict succeeds on every constructed packet and returns DATA_TYPE
\* "packet" with a header carrying packet_id, the packet's timestamp, the type
\* identifier and the full expected-reply list, and carrying in_reply_to
\* exactly when in_reply_to_id is non-null.
C10_HeaderComplete ==
    last.op = "as_dict" =>
        LET p == packets[last.p]
            h == last.data.header
        IN  /\ last.exc = ""
            /\ last.data.DATA_TYPE = "packet"
            /\ h.packet_id = p.packet_id
            /\ p.has_date /\ h.date = isoformat(p.date)
            /\ h.type = Schema[p.cls].packet_type
            /\ h.expected_reply_list = Schema[p.cls].expected_reply
            /\ h.has_in_reply_to <=> (p.has_in_reply_to_id /\ p.in_reply_to_id # None)
            /\ h.has_in_reply_to => h.in_reply_to = p.in_reply_to_id

----------------------------------------------------------------------------
(* Construction: every shape of in_reply_to, additional_data given or left  *)
(* to its default, fields the schema does not declare                        *)

\* The shapes of in_reply_to: None, a text, the empty text, a number, a
\* Packet, a mapping with and without header.packet_id, a list
InReplyShapes ==
    {None, Str("abc"), Str(""), PyInt(42), PacketRef(1), HeaderDict("abc"),
     EmptyDict, PyList}

\* additional_data: left to its default, or a dict of the caller's
Seeds == {NoSeed, [given |-> TRUE, seed |-> <<>>]}

UnknownKeys == {"Extra"}

ConstructShapes ==
    \E cls \in WireClasses, packet_id \in PacketIds, additional_data \in Seeds,
       in_reply_to \in InReplyShapes,
       kwargs \in KwargsOver(UnknownKeys, {Str("x")}) :
        Construct(cls, packet_id, None, additional_data, in_reply_to, kwargs)

NextInit == ConstructShapes \/ AsDictAny \/ ValidateAny

SpecInit == Init /\ [][NextInit]_vars

\* The entries of kwargs under names the class does not declare
RECURSIVE UnknownOf(_, _, _)
UnknownOf(cls, kwargs, i) ==
    IF i > Len(kwargs) THEN <<>>
    ELSE IF InList(kwargs[i].k, Schema[cls].data_keys_required)
              \/ InList(kwargs[i].k, Schema[cls].data_keys_allowed)
         THEN UnknownOf(cls, kwargs, i + 1)
         ELSE <<kwargs[i]>> \o UnknownOf(cls, kwargs, i + 1)

\* C4: a packet constructed without additional_data gets an empty extension
\* mapping of its own: it holds just the undeclared fields of its own call,
\* and constructing it leaves the extension fields of every other packet as
\* they were.
C4_FreshExtensionStore ==
    [][last'.op = "init" =>
          /\ \A b \in DOMAIN packets :
                AdditionalData(default_additional', packets'[b])
                    = AdditionalData(default_additional, packets[b])
          /\ (last'.q # 0 /\ ~last'.given) =>
                AdditionalData(default_additional', packets'[last'.q])
                    = UnknownOf(last'.cls, last'.kwargs, 1)]_vars

\* The in_reply_to_id the normalization rule of the claim gives, and whether
\* construction succeeds
C6_Rule(in_reply_to) ==
    CASE in_reply_to.kind = "none" -> [succeeds |-> TRUE, becomes |-> None]
      [] in_reply_to.kind = "str" -> [succeeds |-> TRUE, becomes |-> in_reply_to]
      [] in_reply_to.kind = "int" -> [succeeds |-> TRUE, becomes |-> Str(ToString(in_reply_to.n))]
      [] in_reply_to.kind = "packet" ->
            [succeeds |-> TRUE, becomes |-> Str(packets[in_reply_to.n].packet_id)]
      [] in_reply_to.kind = "dict" /\ in_reply_to.n = 1 ->
            [succeeds |-> TRUE, becomes |-> Str(in_reply_to.s)]
      [] OTHER -> [succeeds |-> FALSE, becomes |-> None]

\* C6: construction normalizes in_reply_to by the ordered rule and fails on
\* any other value, so every constructed packet has an in_reply_to_id that is
\* null or a plain text.
C6_InReplyToNormalized ==
    /\ last.op = "init" =>
          IF C6_Rule(last.in_reply_to).succeeds
          THEN /\ last.exc = ""
               /\ packets[last.q].has_in_reply_to_id
               /\ packets[last.q].in_reply_to_id = C6_Rule(last.in_reply_to).becomes
          ELSE last.exc # "" /\ last.q = 0
    /\ \A i \in DOMAIN packets :
          /\ packets[i].has_in_reply_to_id
          /\ packets[i].in_reply_to_id.kind \in {"none", "str"}

=============================================================================
